---- MODULE Spec2Model ----
(***************************************************************************)
(* Model of src/functions.py: peak_model (pulse detection and alignment),  *)
(* noise_model (noise segment scan) and psd (one-sided periodogram).       *)
(*                                                                         *)
(* Indices (locs, idx_max, left, right, ...) are the 0-based indices of    *)
(* the source; sequences are TLA+ sequences, so At(x, i) reads x[i].       *)
(* Amplitudes are fixed-point numbers: a stored integer v stands for the   *)
(* real v / Unit(c), where Unit(c) is a multiple of every divisor the run  *)
(* divides by (kernel length, number of buffer samples), so every mean is  *)
(* exact; Div is undefined on an inexact division.                         *)
(***************************************************************************)
EXTENDS Integers, Sequences, FiniteSets, TLC

\* ------------------------------------------------------------ bounds ----
\* length of the timestreams handed to peak_model
SigLen == 18
\* length of the timestreams handed to noise_model
NoiseLen == 8
\* largest input length handed to psd
MaxN == 12
\* largest number of rows of a 2-D psd input
MaxRows == 3

\* ----------------------------------------------------------- helpers ----
Max(a, b) == IF a >= b THEN a ELSE b
Min(a, b) == IF a <= b THEN a ELSE b

RECURSIVE Gcd(_, _)
Gcd(a, b) == IF b = 0 THEN a ELSE Gcd(b, a % b)

Lcm(a, b) == (a * b) \div Gcd(a, b)

RECURSIVE LcmSet(_)
LcmSet(S) == IF S = {} THEN 1
             ELSE LET m == CHOOSE x \in S : TRUE
                  IN Lcm(m, LcmSet(S \ {m}))

\* exact division: no value when b does not divide a
Div(a, b) == CASE a % b = 0 -> a \div b

RECURSIVE SumSeq(_)
SumSeq(s) == IF s = <<>> THEN 0 ELSE Head(s) + SumSeq(Tail(s))

\* x[i] of the source (0-based)
At(x, i) == x[i + 1]

\* a Python slice bound: a negative index counts from the end, and the
\* result is clamped to 0..L
PyBound(k, L) == LET j == IF k < 0 THEN k + L ELSE k
                 IN IF j < 0 THEN 0 ELSE IF j > L THEN L ELSE j

\* x[lo:hi] of the source
PySlice(x, lo, hi) == SubSeq(x, PyBound(lo, Len(x)) + 1, PyBound(hi, Len(x)))

\* x[lo:] of the source
PyFrom(x, lo) == SubSeq(x, PyBound(lo, Len(x)) + 1, Len(x))

\* x[start::-1] of the source: from index start down to index 0; empty
\* when start, counted from the end, lies before the first element
PyRevFrom(x, start) ==
    LET j == IF start < 0 THEN start + Len(x) ELSE start
        s == IF j >= Len(x) THEN Len(x) - 1 ELSE j
    IN IF j < 0 THEN <<>> ELSE [k \in 1..(s + 1) |-> At(x, s - (k - 1))]

\* np.argmax of a boolean array: the first True, 0 when there is none
ArgMaxBool(bs) ==
    IF \E k \in 1..Len(bs) : bs[k]
    THEN (CHOOSE k \in 1..Len(bs) : bs[k] /\ \A j \in 1..(k - 1) : ~bs[j]) - 1
    ELSE 0

\* x[mask] of the source: the elements whose mask entry is True
RECURSIVE Mask(_, _)
Mask(x, m) == IF x = <<>> \/ m = <<>> THEN <<>>
              ELSE (IF Head(m) THEN <<Head(x)>> ELSE <<>>) \o Mask(Tail(x), Tail(m))

\* the elements of a finite set of integers in increasing order
RECURSIVE SortedSeq(_)
SortedSeq(S) == IF S = {} THEN <<>>
                ELSE LET m == CHOOSE x \in S : \A y \in S : x <= y
                     IN <<m>> \o SortedSeq(S \ {m})

Range(s) == {s[k] : k \in 1..Len(s)}

\* ------------------------------------------------- scipy find_peaks ----
\* scipy.signal.find_peaks as the source calls it (height = lower bound,
\* prominence = lower bound, no window length).

\* local maxima: a sample or flat run strictly above both neighbours and
\* touching neither end of x; a flat run is reported at its middle
\* (rounded down)
LocalMaxima(x) ==
    { (l + r) \div 2 : <<l, r>> \in
        { p \in (1..(Len(x) - 2)) \X (1..(Len(x) - 2)) :
            /\ p[1] <= p[2]
            /\ At(x, p[1] - 1) < At(x, p[1])
            /\ \A k \in p[1]..p[2] : At(x, k) = At(x, p[1])
            /\ At(x, p[2] + 1) < At(x, p[1]) } }

\* prominence of the peak at index p: its height above the higher of the
\* lowest points between it and the next higher sample on each side
Prominence(x, p) ==
    LET h == At(x, p)
        lstop == IF \E j \in 0..(p - 1) : At(x, j) > h
                 THEN CHOOSE j \in 0..(p - 1) :
                        At(x, j) > h /\ \A k \in (j + 1)..(p - 1) : At(x, k) <= h
                 ELSE -1
        rstop == IF \E j \in (p + 1)..(Len(x) - 1) : At(x, j) > h
                 THEN CHOOSE j \in (p + 1)..(Len(x) - 1) :
                        At(x, j) > h /\ \A k \in (p + 1)..(j - 1) : At(x, k) <= h
                 ELSE Len(x)
        left_min == CHOOSE v \in {At(x, k) : k \in (lstop + 1)..p} :
                        \A k \in (lstop + 1)..p : v <= At(x, k)
        right_min == CHOOSE v \in {At(x, k) : k \in p..(rstop - 1)} :
                        \A k \in p..(rstop - 1) : v <= At(x, k)
    IN h - Max(left_min, right_min)

\* the peak indices, in increasing order
find_peaks(x, height, prominence) ==
    SortedSeq({ p \in LocalMaxima(x) :
                  At(x, p) >= height /\ Prominence(x, p) >= prominence })

\* props['peak_heights']
peak_heights(x, locs) == [k \in 1..Len(locs) |-> At(x, locs[k])]

\* ------------------------------------------------------- peak_model ----
VARIABLES
    pc,               \* position in the function being run
    cfg,              \* the arguments other than the timestream
    signal_in,        \* the caller's timestream as it was at the call
    signal,           \* the caller's timestream (the array object passed in)
    smoothed_signal,  \* the array find_peaks runs on (signal itself if not sw)
    locs_smoothed, pks_smoothed, det_locs, nr_pulses,
    diff_locs, filter,
    sel_locs, pulses_aligned, idx_halfmax, H, filter_diff, i,
    pulse, offset, idx_max, full_max, rising_edge, last,
    outliers, filtered_locs,
    noise,            \* locals and results of noise_model
    spectrum          \* arguments and result of psd

pmVars == <<signal_in, signal, smoothed_signal, locs_smoothed, pks_smoothed,
            det_locs, nr_pulses, diff_locs, filter, sel_locs, pulses_aligned,
            idx_halfmax, H, filter_diff, i, pulse, offset, idx_max, full_max,
            rising_edge, last, outliers, filtered_locs>>

vars == <<pc, cfg, pmVars, noise, spectrum>>

\* int(buffer * pw): buffer is the fraction cfg.buffer[1] / cfg.buffer[2]
buffer(c) == (c.buffer[1] * c.pw) \div c.buffer[2]

\* int(2 * buffer + pw)
buffer_len(c) == 2 * buffer(c) + c.pw

\* int(rise_offset * pw)
align_shift(c) == (c.rise_offset[1] * c.pw) \div c.rise_offset[2]

\* denominator of the fixed-point amplitudes of a run with arguments c
Unit(c) == LcmSet({Max(c.sw, 1)}
                  \cup (IF buffer(c) > 0 THEN {2 * m : m \in 1..buffer(c)}
                                         ELSE 1..c.pw))

\* get_window('box', pw, sw) convolved with mode='valid':
\* out[j] = sum(signal[j : j + sw]) / sw
convolve_box(x, sw) ==
    [j \in 1..(Len(x) - sw + 1) |-> Div(SumSeq(SubSeq(x, j, j + sw - 1)), sw)]

\* view -= offset, where view = x[lo:hi] is a view into x
SubtractInPlace(x, lo, hi, off) ==
    [k \in 1..Len(x) |->
        IF PyBound(lo, Len(x)) < k /\ k <= PyBound(hi, Len(x))
        THEN x[k] - off ELSE x[k]]

\* lines 166-176: smooth the timestream, find the candidates
PM_Detect ==
    /\ pc = "peak_model"
    /\ smoothed_signal' = IF cfg.sw # 0 THEN convolve_box(signal, cfg.sw) ELSE signal
    /\ locs_smoothed' = find_peaks(smoothed_signal', cfg.mph * Unit(cfg), cfg.mpp * Unit(cfg))
    /\ pks_smoothed' = peak_heights(smoothed_signal', locs_smoothed')
    /\ nr_pulses' = Len(locs_smoothed')
    /\ det_locs' = locs_smoothed'
    /\ pc' = "detected"
    /\ UNCHANGED <<cfg, signal_in, signal, diff_locs, filter, sel_locs,
                   pulses_aligned, idx_halfmax, H, filter_diff, i, pulse, offset,
                   idx_max, full_max, rising_edge, last, outliers, filtered_locs,
                   noise, spectrum>>

\* peak_model without the branch of line 177: with no candidate,
\* locs_smoothed[-1] of line 191 raises IndexError
PM_NoEmptyBranch ==
    /\ pc = "detected"
    /\ nr_pulses = 0
    /\ pc' = "raised"
    /\ UNCHANGED <<cfg, pmVars, noise, spectrum>>

\* lines 177-182 and 334: no candidate, everything returned is empty
PM_ReturnEmpty ==
    /\ pc = "detected"
    /\ nr_pulses = 0
    /\ pulses_aligned' = <<>>
    /\ H' = <<>>
    /\ sel_locs' = <<>>
    /\ filtered_locs' = <<>>
    /\ pks_smoothed' = <<>>
    /\ pc' = "done"
    /\ UNCHANGED <<cfg, signal_in, signal, smoothed_signal, locs_smoothed, det_locs,
                   nr_pulses, diff_locs, filter, idx_halfmax, filter_diff, i, pulse,
                   offset, idx_max, full_max, rising_edge, last, outliers,
                   noise, spectrum>>

\* lines 184-193: drop the last candidate when it is too close to the end
PM_FilterEnd ==
    /\ pc = "detected"
    /\ nr_pulses # 0
    /\ LET drop == locs_smoothed[Len(locs_smoothed)] + cfg.pw + buffer(cfg) > Len(signal)
       IN /\ locs_smoothed' = IF drop THEN SubSeq(locs_smoothed, 1, Len(locs_smoothed) - 1)
                                      ELSE locs_smoothed
          /\ pks_smoothed' = IF drop THEN SubSeq(pks_smoothed, 1, Len(pks_smoothed) - 1)
                                     ELSE pks_smoothed
    /\ pc' = "endfiltered"
    /\ UNCHANGED <<cfg, signal_in, signal, smoothed_signal, det_locs, nr_pulses,
                   diff_locs, filter, sel_locs, pulses_aligned, idx_halfmax, H,
                   filter_diff, i, pulse, offset, idx_max, full_max, rising_edge,
                   last, outliers, filtered_locs, noise, spectrum>>

\* lines 196-197: diff_locs[0] is the first location itself, diff_locs[k]
\* the space between candidate k and the one before it
spaces(locs) ==
    [k \in 1..Len(locs) |-> IF k = 1 THEN locs[1] ELSE locs[k] - locs[k - 1]]

\* lines 198-200: the mask of the candidates far enough from both neighbours
far_enough(d, blen) ==
    LET filter_left == [k \in 1..Len(d) |-> d[k] > blen]
        \* np.hstack((filter_left[1:], True)), cut to the length of
        \* filter_left by the broadcast of &
        filter_right == [k \in 1..Len(d) |-> IF k < Len(d) THEN filter_left[k + 1] ELSE TRUE]
    IN [k \in 1..Len(d) |-> filter_left[k] /\ filter_right[k]]

\* lines 195-211: drop the candidates that are too close to a neighbour
PM_FilterTooClose ==
    /\ pc = "endfiltered"
    /\ diff_locs' = spaces(locs_smoothed)
    /\ filter' = far_enough(diff_locs', buffer_len(cfg))
    /\ locs_smoothed' = Mask(locs_smoothed, filter')
    /\ pks_smoothed' = Mask(pks_smoothed, filter')
    /\ sel_locs' = locs_smoothed'
    /\ pulses_aligned' = <<>>
    /\ idx_halfmax' = <<>>
    /\ H' = <<>>
    /\ filter_diff' = [k \in 1..Len(locs_smoothed') |-> TRUE]
    /\ i' = 0
    /\ pc' = "loop"
    /\ UNCHANGED <<cfg, signal_in, signal, smoothed_signal, det_locs, nr_pulses,
                   pulse, offset, idx_max, full_max, rising_edge, last, outliers,
                   filtered_locs, noise, spectrum>>

\* scipy.signal.resample(x, num), the supersample() of the source: num
\* samples of the band-limited interpolant of x.  Output sample j lies at
\* position j * len(x) / num of x; where that is a whole index the sample
\* is x's, elsewhere it is an interpolated value the model does not
\* compute: either neighbour of the position (x taken as periodic) may stand
\* for it.  The set of the outputs the model admits:
RECURSIVE resample_from(_, _, _)
resample_from(x, num, j) ==
    IF j = num THEN {<<>>}
    ELSE LET t == (j * Len(x)) \div num
             here == IF (j * Len(x)) % num = 0
                     THEN {At(x, t)}
                     ELSE {At(x, t), At(x, (t + 1) % Len(x))}
         IN {<<v>> \o rest : v \in here, rest \in resample_from(x, num, j + 1)}

supersample(x, num) == resample_from(x, num, 0)

\* line 266 without its test: a cut of any length is appended
any_length(aligned_pulse, c) == TRUE

\* line 266: the aligned cut is kept only at its full length
full_length(aligned_pulse, c) == Len(aligned_pulse) = c.pw * c.ssf

\* lines 243-256: the true peak of the cut p around smoothed_loc:
\* [found, idx_max, full_max]
true_peak(p, smoothed_loc, min_height) ==
    LET right_cut == PyFrom(p, smoothed_loc)
        locs_right == find_peaks(right_cut, min_height, 0)
        left_cut == PySlice(p, 0, smoothed_loc)
        locs_left == find_peaks(left_cut, min_height, 0)
    IN IF Len(locs_right) # 0
       THEN [found |-> TRUE, idx_max |-> smoothed_loc + locs_right[1],
             full_max |-> peak_heights(right_cut, locs_right)[1]]
       ELSE IF Len(locs_left) # 0
       THEN [found |-> TRUE, idx_max |-> locs_left[Len(locs_left)],
             full_max |-> peak_heights(left_cut, locs_left)[1]]
       ELSE [found |-> FALSE, idx_max |-> -1, full_max |-> 0]

\* line 232: the index of the smoothed peak in the cut
smoothed_loc(c) == (buffer(c) + align_shift(c)) * c.ssf

\* lines 235-240: the height a true peak must reach
min_height(p, smoothed_peak, c) ==
    IF At(p, smoothed_loc(c)) <= smoothed_peak THEN smoothed_peak
    ELSE At(p, smoothed_loc(c))

\* line 261: pulse[-(len_pulse - idx_max)::-1], the samples from the peak
\* back to the start of the cut
back_from_peak(p, c, peak) == PyRevFrom(p, -(buffer_len(c) * c.ssf - peak))

\* line 261: walk back from the peak to the first sample below half its
\* height (half_max = full_max / 2)
rising_edge_of(p, c, tp) ==
    tp.idx_max - ArgMaxBool([k \in 1..Len(back_from_peak(p, c, tp.idx_max)) |->
                               2 * back_from_peak(p, c, tp.idx_max)[k] < tp.full_max])

\* lines 263-265: the cut of pw * ssf samples that starts align_shift * ssf
\* before the rising edge
aligned_cut(p, c, edge) ==
    PySlice(p, edge - align_shift(c) * c.ssf,
               edge - align_shift(c) * c.ssf + c.pw * c.ssf)

\* lines 262-273: what becomes of a candidate whose true peak is tp, whose
\* rising edge is edge and whose aligned cut is aligned_pulse
settle(c, tp, edge, aligned_pulse) ==
    [last |-> IF edge > align_shift(c)
              THEN IF full_length(aligned_pulse, c) THEN "appended" ELSE "truncated"
              ELSE "degenerate",
     idx_max |-> tp.idx_max, full_max |-> tp.full_max,
     rising_edge |-> edge, aligned_pulse |-> aligned_pulse]

after_edge(p, c, tp, edge) == settle(c, tp, edge, aligned_cut(p, c, edge))

\* lines 244-273 once the true-peak search has returned tp; np.argmax
\* raises ValueError on an empty walk
after_peak(p, c, tp) ==
    IF ~tp.found
    THEN [last |-> "nopeak", idx_max |-> -1, full_max |-> 0,
          rising_edge |-> -1, aligned_pulse |-> <<>>]
    ELSE IF back_from_peak(p, c, tp.idx_max) = <<>>
    THEN [last |-> "ValueError", idx_max |-> tp.idx_max, full_max |-> tp.full_max,
          rising_edge |-> -1, aligned_pulse |-> <<>>]
    ELSE after_edge(p, c, tp, rising_edge_of(p, c, tp))

\* lines 232-273 for the (drift-corrected, supersampled) cut p of the
\* candidate with smoothed height smoothed_peak; pulse[smoothed_loc] raises
\* IndexError past the end of the cut
align(p, smoothed_peak, c) ==
    IF smoothed_loc(c) >= Len(p)
    THEN [last |-> "IndexError", idx_max |-> -1, full_max |-> 0,
          rising_edge |-> -1, aligned_pulse |-> <<>>]
    ELSE after_peak(p, c, true_peak(p, smoothed_loc(c), min_height(p, smoothed_peak, c)))

\* lines 215-216: the bounds of the buffered cut around loc
left_of(loc, c) == loc - align_shift(c) - buffer(c)
right_of(loc, c) == loc + (c.pw - align_shift(c)) + buffer(c)

\* line 221: the mean of the first and the last buffer samples of the cut
\* (pulse[-buffer:] is the whole cut when buffer is 0)
drift_offset(cut, c) ==
    Div(SumSeq(PySlice(cut, 0, buffer(c)) \o PyFrom(cut, -buffer(c))),
        Len(PySlice(cut, 0, buffer(c)) \o PyFrom(cut, -buffer(c))))

\* lines 222-223: pulse -= offset writes through the view into signal;
\* smoothed_pulse -= offset writes into smoothed_signal, which is the same
\* array as signal when sw is not set
corrected_signal(x, lo, hi, off, c) ==
    IF c.sw # 0 THEN SubtractInPlace(x, lo, hi, off)
    ELSE SubtractInPlace(SubtractInPlace(x, lo, hi, off), lo, hi, off)

corrected_smoothed(x, sm, lo, hi, off, c) ==
    IF c.sw # 0 THEN SubtractInPlace(sm, lo, hi, off)
    ELSE corrected_signal(x, lo, hi, off, c)

\* the assignments of one pass: p is the cut, r what align made of it
pass(p, r, lo) ==
    /\ pulse' = p
    /\ last' = r.last
    /\ idx_max' = IF r.idx_max # -1 THEN r.idx_max ELSE idx_max
    /\ full_max' = IF r.idx_max # -1 THEN r.full_max ELSE full_max
    /\ rising_edge' = IF r.rising_edge # -1 THEN r.rising_edge ELSE rising_edge
    /\ sel_locs' = IF r.idx_max # -1 THEN [sel_locs EXCEPT ![i + 1] = lo + r.idx_max]
                                     ELSE sel_locs
    /\ filter_diff' = IF r.last \in {"appended", "IndexError", "ValueError"}
                      THEN filter_diff
                      ELSE [filter_diff EXCEPT ![i + 1] = FALSE]
    /\ pulses_aligned' = IF r.last = "appended"
                         THEN Append(pulses_aligned, r.aligned_pulse)
                         ELSE pulses_aligned
    /\ idx_halfmax' = IF r.last = "appended"
                      THEN Append(idx_halfmax, r.rising_edge)
                      ELSE idx_halfmax
    /\ H' = IF r.last = "appended" THEN Append(H, r.full_max) ELSE H
    /\ i' = IF r.last \in {"IndexError", "ValueError"} THEN i ELSE i + 1
    /\ pc' = IF r.last \in {"IndexError", "ValueError"} THEN "raised" ELSE "loop"

\* lines 217-231: the cut of the candidate at loc, drift-corrected in place
\* and supersampled
cut_and_align(loc, smoothed_peak, off) ==
    /\ offset' = off
    /\ signal' = corrected_signal(signal, left_of(loc, cfg), right_of(loc, cfg), off, cfg)
    /\ smoothed_signal' = corrected_smoothed(signal, smoothed_signal, left_of(loc, cfg),
                                             right_of(loc, cfg), off, cfg)
    /\ \E p \in (IF cfg.ssf > 1
                 THEN supersample(PySlice(signal', left_of(loc, cfg), right_of(loc, cfg)),
                                  buffer_len(cfg) * cfg.ssf)
                 ELSE {PySlice(signal', left_of(loc, cfg), right_of(loc, cfg))}) :
         pass(p, align(p, smoothed_peak, cfg), left_of(loc, cfg))

\* lines 213-273: one pass of the alignment loop, for candidate i
PM_Align ==
    /\ pc = "loop"
    /\ i < Len(locs_smoothed)
    /\ cut_and_align(At(locs_smoothed, i), At(pks_smoothed, i),
                     drift_offset(PySlice(signal, left_of(At(locs_smoothed, i), cfg),
                                          right_of(At(locs_smoothed, i), cfg)), cfg))
    /\ UNCHANGED <<cfg, signal_in, locs_smoothed, pks_smoothed, det_locs, nr_pulses,
                   diff_locs, filter, outliers, filtered_locs, noise, spectrum>>

\* lines 308-316 for sample j of pulse k of the ensemble P: strictly
\* below mean + filter_std * std and strictly above mean - filter_std * std.
\* With n pulses, S their sum and Q their sum of squares at sample j,
\* n * (x - mean) = n * x - S and (n * std)^2 = n * Q - S^2.
inside(P, k, j, filter_std) ==
    LET n == Len(P)
        S == SumSeq([m \in 1..n |-> P[m][j]])
        Q == SumSeq([m \in 1..n |-> P[m][j] * P[m][j]])
        d == n * P[k][j] - S
        V == n * Q - S * S
        less == d < 0 \/ d * d < filter_std * filter_std * V
        greater == d > 0 \/ d * d < filter_std * filter_std * V
    IN less /\ greater

\* lines 314-316: the mask of the pulses that are kept
not_outlier(P, c) ==
    [k \in 1..Len(P) |-> \A j \in 1..(c.pw * c.ssf) : inside(P, k, j, c.filter_std)]

\* lines 299-334: drop the discarded candidates, reject the outliers, return
PM_Reject ==
    /\ pc = "loop"
    /\ i = Len(locs_smoothed)
    /\ outliers' = not_outlier(pulses_aligned, cfg)
    /\ pulses_aligned' = Mask(pulses_aligned, outliers')
    /\ locs_smoothed' = Mask(Mask(locs_smoothed, filter_diff), outliers')
    /\ sel_locs' = Mask(Mask(sel_locs, filter_diff), outliers')
    /\ pks_smoothed' = Mask(Mask(pks_smoothed, filter_diff), outliers')
    /\ H' = Mask(H, outliers')
    /\ filtered_locs' = SortedSeq(Range(det_locs) \ Range(locs_smoothed'))
    /\ pc' = "done"
    /\ UNCHANGED <<cfg, signal_in, signal, smoothed_signal, det_locs, nr_pulses,
                   diff_locs, filter, idx_halfmax, filter_diff, i, pulse, offset,
                   idx_max, full_max, rising_edge, last, noise, spectrum>>

\* ------------------------------------------------------------ inputs ----
\* pulse shapes, in amplitude units: a one-sample spike, a triangular
\* pulse, a two-sample flat top, a flat-topped pulse preceded by two
\* noise spikes, two pulses that rise in steps and end at their peak, a
\* pulse with a steep rise and an undershoot, and a pulse on a pedestal
\* with an undershoot
Shapes == { <<3>>, <<1, 3, 1>>, <<2, 2>>, <<-3, 5, -2, 2, 0, 2, 2>>,
            <<1, 1, 3>>, <<1, 3>>, <<3, 5, -4, -4>>, <<4, 4, 6, -4>> }

\* baseline levels, in amplitude units
Baselines == {0, 1}

\* the events that fit into a timestream of n samples: a shape and the
\* index of its first sample
Events(n) == { e \in Shapes \X (0..(n - 1)) : e[2] + Len(e[1]) <= n }

\* the sum at sample k (counted from 1) of the events of E that cover it
RECURSIVE EventSum(_, _)
EventSum(E, k) ==
    IF E = {} THEN 0
    ELSE LET e == CHOOSE x \in E : TRUE
         IN (IF e[2] < k /\ k <= e[2] + Len(e[1]) THEN e[1][k - e[2]] ELSE 0)
            + EventSum(E \ {e}, k)

\* the timestream of n samples with baseline b and the events of E added
Timestream(n, b, E) == [k \in 1..n |-> b + EventSum(E, k)]

\* clean pulse shapes: the one-sample spike and the triangular pulse
CleanShapes == { <<3>>, <<1, 3, 1>> }

\* timestreams with no event, one event of any shape, two clean pulses, or
\* the two stepped pulses
Timestreams(n) ==
    { Timestream(n, b, E) : b \in Baselines,
        E \in {{}} \cup {{e} : e \in Events(n)}
              \cup {{e, f} : e \in {x \in Events(n) : x[1] \in CleanShapes},
                             f \in {x \in Events(n) : x[1] \in CleanShapes}}
              \cup {{e, f} : e \in {x \in Events(n) : x[1] = <<1, 1, 3>>},
                             f \in {x \in Events(n) : x[1] = <<1, 3>>}} }

\* the arguments of peak_model: a short pulse window with and without
\* buffer and rise offset, a long one with a long, a short and no buffer,
\* and a supersampled one
PeakConfigs ==
    { [mph |-> 2, mpp |-> 1, pw |-> 2, sw |-> sw, ssf |-> 1, buffer |-> b,
       filter_std |-> 2, rise_offset |-> r] :
         sw \in {0, 2}, b \in {<<0, 1>>, <<1, 2>>}, r \in {<<0, 1>>, <<1, 2>>} }
    \cup
    { [mph |-> 2, mpp |-> 1, pw |-> 4, sw |-> sw, ssf |-> 1, buffer |-> <<3, 4>>,
       filter_std |-> 2, rise_offset |-> <<1, 2>>] : sw \in {0, 2} }
    \cup
    { [mph |-> 2, mpp |-> 1, pw |-> 4, sw |-> sw, ssf |-> 1, buffer |-> <<1, 4>>,
       filter_std |-> 2, rise_offset |-> <<1, 4>>] : sw \in {0, 2} }
    \cup
    { [mph |-> 2, mpp |-> 1, pw |-> 4, sw |-> 2, ssf |-> 1, buffer |-> <<0, 1>>,
       filter_std |-> 2, rise_offset |-> <<0, 1>>] }
    \cup
    { [mph |-> 2, mpp |-> 1, pw |-> 2, sw |-> 2, ssf |-> 2, buffer |-> <<1, 2>>,
       filter_std |-> 2, rise_offset |-> r] : r \in {<<0, 1>>, <<1, 2>>} }

Idle == [pc |-> "idle"]

InitPeak ==
    /\ pc = "peak_model"
    /\ cfg \in PeakConfigs
    /\ \E raw \in Timestreams(SigLen) :
         signal_in = [k \in 1..SigLen |-> Unit(cfg) * raw[k]]
    /\ signal = signal_in
    /\ smoothed_signal = <<>>
    /\ locs_smoothed = <<>> /\ pks_smoothed = <<>> /\ det_locs = <<>>
    /\ nr_pulses = 0
    /\ diff_locs = <<>> /\ filter = <<>>
    /\ sel_locs = <<>> /\ pulses_aligned = <<>> /\ idx_halfmax = <<>> /\ H = <<>>
    /\ filter_diff = <<>> /\ i = 0
    /\ pulse = <<>> /\ offset = 0 /\ idx_max = -1 /\ full_max = 0
    /\ rising_edge = -1 /\ last = "none"
    /\ outliers = <<>> /\ filtered_locs = <<>>
    /\ noise = Idle
    /\ spectrum = Idle

NextPeak ==
    \/ PM_Detect
    \/ PM_ReturnEmpty
    \/ PM_FilterEnd
    \/ PM_FilterTooClose
    \/ PM_Align
    \/ PM_Reject

Spec == InitPeak /\ [][NextPeak]_vars

\* ------------------------------------------------------ noise_model ----
\* round(a / 2) of Python 3: a half is rounded to the even neighbour
round_half(a) ==
    IF a % 2 = 0 THEN a \div 2
    ELSE IF ((a - 1) \div 2) % 2 = 0 THEN (a - 1) \div 2 ELSE (a + 1) \div 2

\* the length of the one-sided spectrum scipy.signal.welch returns for
\* nperseg samples (return_onesided=True): nperseg // 2 + 1
welch_length(nperseg) == nperseg \div 2 + 1

\* the state of the other two functions while one of them runs
PeakIdle ==
    /\ cfg = Idle
    /\ signal_in = <<>> /\ signal = <<>> /\ smoothed_signal = <<>>
    /\ locs_smoothed = <<>> /\ pks_smoothed = <<>> /\ det_locs = <<>>
    /\ nr_pulses = 0
    /\ diff_locs = <<>> /\ filter = <<>>
    /\ sel_locs = <<>> /\ pulses_aligned = <<>> /\ idx_halfmax = <<>> /\ H = <<>>
    /\ filter_diff = <<>> /\ i = 0
    /\ pulse = <<>> /\ offset = 0 /\ idx_max = -1 /\ full_max = 0
    /\ rising_edge = -1 /\ last = "none"
    /\ outliers = <<>> /\ filtered_locs = <<>>

\* lines 341-344: ssf is 1 unless it is set and larger than 1
effective_ssf(ssf) == IF ssf # 0 /\ ssf > 1 THEN ssf ELSE 1

\* lines 341-362: the locals before the scan
NM_Start ==
    /\ pc = "noise_model"
    /\ noise' = [noise EXCEPT
                   !.ssf = effective_ssf(noise.ssf),
                   !.signal_length = Len(noise.signal),
                   !.len_onesided = round_half(noise.pw * effective_ssf(noise.ssf)) + 1,
                   !.smoothed_signal = IF noise.sw # 0
                                       THEN convolve_box(noise.signal, noise.sw)
                                       ELSE noise.signal,
                   !.nr_good_segments = 0, !.start = 0, !.nr = 0,
                   !.all_locs = <<>>]
    /\ pc' = "scan"
    /\ UNCHANGED <<cfg, pmVars, spectrum>>

\* line 371: the candidates of the segment that starts at nr * pw
segment_locs(n) ==
    find_peaks(PySlice(n.smoothed_signal, n.nr * n.pw, n.nr * n.pw + n.pw),
               n.mph * Max(n.sw, 1), n.mpp * Max(n.sw, 1))

\* line 366: the segment would reach the end of the data
out_of_data(n) == n.nr * n.pw + n.pw >= n.signal_length

\* lines 363-368: the scan stops at the end of the data
NM_Break ==
    /\ pc = "scan"
    /\ noise.nr_good_segments < noise.nr_req_segments
    /\ out_of_data(noise)
    /\ noise' = [noise EXCEPT !.start = noise.nr * noise.pw]
    /\ pc' = "scanned"
    /\ UNCHANGED <<cfg, pmVars, spectrum>>

\* lines 363, 384: the scan stops with the required number of segments
NM_Enough ==
    /\ pc = "scan"
    /\ noise.nr_good_segments >= noise.nr_req_segments
    /\ pc' = "scanned"
    /\ UNCHANGED <<cfg, pmVars, noise, spectrum>>

\* lines 372-375: a segment with candidates is skipped, its candidates
\* are collected
NM_Skip ==
    /\ pc = "scan"
    /\ noise.nr_good_segments < noise.nr_req_segments
    /\ ~out_of_data(noise)
    /\ Len(segment_locs(noise)) # 0
    /\ noise' = [noise EXCEPT
                   !.start = noise.nr * noise.pw,
                   !.nr = noise.nr + 1,
                   !.all_locs = noise.all_locs \o
                                [k \in 1..Len(segment_locs(noise)) |->
                                   segment_locs(noise)[k] + noise.nr * noise.pw]]
    /\ pc' = "scan"
    /\ UNCHANGED <<cfg, pmVars, spectrum>>

\* lines 376-383: a segment without candidates is accumulated;
\* sxx_segments += sxx_segment raises ValueError when the two lengths
\* differ (and neither spectrum is of length 1)
NM_Accept ==
    /\ pc = "scan"
    /\ noise.nr_good_segments < noise.nr_req_segments
    /\ ~out_of_data(noise)
    /\ Len(segment_locs(noise)) = 0
    /\ IF welch_length(noise.pw * noise.ssf) = noise.len_onesided
       THEN /\ noise' = [noise EXCEPT
                           !.start = noise.nr * noise.pw,
                           !.nr = noise.nr + 1,
                           !.nr_good_segments = noise.nr_good_segments + 1]
            /\ pc' = "scan"
       ELSE /\ noise' = [noise EXCEPT !.start = noise.nr * noise.pw,
                                      !.raised = "ValueError"]
            /\ pc' = "raised"
    /\ UNCHANGED <<cfg, pmVars, spectrum>>

\* lines 384-391: raise without a good segment, else return the average
\* spectrum, the candidates and the event rate
\* len(all_locs) / (nr * pw / sf), kept as numerator and denominator
NM_Return ==
    /\ pc = "scanned"
    /\ IF noise.nr_good_segments = 0
       THEN /\ noise' = [noise EXCEPT !.raised = "No good noise segments found"]
            /\ pc' = "raised"
       ELSE /\ noise' = [noise EXCEPT
                           !.sxx_length = noise.len_onesided,
                           !.photon_rate = <<Len(noise.all_locs) * noise.sf,
                                             noise.nr * noise.pw>>]
            /\ pc' = "done"
    /\ UNCHANGED <<cfg, pmVars, spectrum>>

\* timestreams for noise_model: no event or one clean pulse on a zero
\* baseline, of every length from the kernel length up to NoiseLen, in
\* units of 1 / sw
NoiseStreams(sw) ==
    UNION { { [k \in 1..n |-> Max(sw, 1) * Timestream(n, 0, E)[k]] :
                E \in {{}} \cup {{e} : e \in {x \in Events(n) : x[1] \in CleanShapes}} } :
            n \in 2..NoiseLen }

InitNoise ==
    /\ pc = "noise_model"
    /\ PeakIdle
    /\ spectrum = Idle
    /\ \E pw \in {2, 3, 4}, sw \in {0, 2}, ssf \in {0, 1, 2}, nr_req \in 1..3 :
         \E x \in NoiseStreams(sw) :
           noise = [signal |-> x, pw |-> pw, sf |-> 1, ssf |-> ssf,
                    nr_req_segments |-> nr_req, mph |-> 2, mpp |-> 1, sw |-> sw,
                    signal_length |-> 0, len_onesided |-> 0, smoothed_signal |-> <<>>,
                    nr_good_segments |-> 0, start |-> 0, nr |-> 0, all_locs |-> <<>>,
                    sxx_length |-> 0, photon_rate |-> <<0, 1>>, raised |-> "none"]

NextNoise ==
    \/ NM_Start
    \/ NM_Break
    \/ NM_Enough
    \/ NM_Skip
    \/ NM_Accept
    \/ NM_Return

SpecNoise == InitNoise /\ [][NextNoise]_vars

\* -------------------------------------------------------------- psd ----
\* psd_array is kept as the sequence of its bins: bin k holds
\* weight * |fft_array[k]|^2 / (len_pulse * fs), and the model records k and
\* weight.  fft_array has len_pulse bins, so the slice [:len_onesided]
\* has Min(len_onesided, len_pulse) of them.
onesided(len_pulse, len_onesided) ==
    [k \in 1..Min(len_onesided, len_pulse) |-> [bin |-> k - 1, weight |-> 1]]

\* psd_array[1:-1] *= 2
double_inner(a) ==
    [k \in 1..Len(a) |->
        IF PyBound(1, Len(a)) < k /\ k <= PyBound(-1, Len(a))
        THEN [a[k] EXCEPT !.weight = 2 * a[k].weight] ELSE a[k]]

\* lines 447-453: a 1-D array of len_pulse samples
Psd_1D ==
    /\ pc = "psd"
    /\ spectrum.ndim = 1
    /\ spectrum' = [spectrum EXCEPT
                      !.len_onesided = round_half(spectrum.len_pulse) + 1,
                      !.psd_array = <<double_inner(onesided(spectrum.len_pulse,
                                          round_half(spectrum.len_pulse) + 1))>>]
    /\ pc' = "done"
    /\ UNCHANGED <<cfg, pmVars, noise>>

\* lines 455-461: a 2-D array of rows of len_pulse samples each
Psd_2D ==
    /\ pc = "psd"
    /\ spectrum.ndim = 2
    /\ spectrum' = [spectrum EXCEPT
                      !.len_onesided = round_half(spectrum.len_pulse) + 1,
                      !.psd_array = [r \in 1..spectrum.rows |->
                                       double_inner(onesided(spectrum.len_pulse,
                                           round_half(spectrum.len_pulse) + 1))]]
    /\ pc' = "done"
    /\ UNCHANGED <<cfg, pmVars, noise>>

\* lines 462-463: any other number of dimensions
Psd_Raise ==
    /\ pc = "psd"
    /\ spectrum.ndim \notin {1, 2}
    /\ pc' = "raised"
    /\ UNCHANGED <<cfg, pmVars, noise, spectrum>>

InitPsd ==
    /\ pc = "psd"
    /\ PeakIdle
    /\ noise = Idle
    /\ \E nd \in 1..3, rows \in 1..MaxRows, n \in 1..MaxN :
         spectrum = [ndim |-> nd, rows |-> IF nd = 1 THEN 1 ELSE rows,
                     len_pulse |-> n, len_onesided |-> 0, psd_array |-> <<>>]

NextPsd ==
    \/ Psd_1D
    \/ Psd_2D
    \/ Psd_Raise

SpecPsd == InitPsd /\ [][NextPsd]_vars

\* ------------------------------------------------ claims: peak_model ----
AllZero(x) == \A k \in 1..Len(x) : x[k] = 0

\* C1: peak_model never modifies its input timestream: whenever it returns
\* or raises, the caller's array holds the samples it held at the call.
C1_InputUnchanged == pc \in {"done", "raised"} => signal = signal_in

\* C1: a run that returned with a candidate cut out of a timestream whose
\* buffer mean was not zero
C1_DriftCorrected == pc = "done" /\ i > 0 /\ offset # 0

\* C2: when detection yields no candidate (as it does for an all-zero
\* timestream), peak_model raises nothing and returns an empty ensemble, empty
\* heights, empty selected locations and empty rejected locations.
C2_EmptyWithoutCandidates ==
    /\ (AllZero(signal_in) /\ pc # "peak_model") => nr_pulses = 0
    /\ (nr_pulses = 0 /\ pc \notin {"peak_model", "detected"}) =>
          /\ pc = "done"
          /\ pulses_aligned = <<>> /\ H = <<>>
          /\ sel_locs = <<>> /\ filtered_locs = <<>> /\ pks_smoothed = <<>>

\* C2: peak_model has returned for an all-zero timestream, smoothing enabled
C2_ReturnedForAllZero ==
    pc = "done" /\ nr_pulses = 0 /\ AllZero(signal_in) /\ cfg.sw # 0

\* the index of the largest sample of a shape (0-based, the first if several)
peak_of(shape) ==
    (CHOOSE k \in 1..Len(shape) :
        /\ \A j \in 1..Len(shape) : shape[j] <= shape[k]
        /\ \A j \in 1..(k - 1) : shape[j] < shape[k]) - 1

\* x is zero but for the one clean pulse e, whose peak lies more than
\* 2 * buffer + pw samples from both ends
single_clean_pulse(x, c, e) ==
    /\ e[1] \in CleanShapes
    /\ x = [k \in 1..SigLen |-> Unit(c) * Timestream(SigLen, 0, {e})[k]]
    /\ e[2] + peak_of(e[1]) > buffer_len(c)
    /\ (SigLen - 1) - (e[2] + peak_of(e[1])) > buffer_len(c)

\* C3: a timestream that is zero but for one clean pulse of height H0, far
\* from both ends, with ssf = 1, is recovered: once detection has found the
\* pulse, the ensemble returned holds exactly one pulse, no location is
\* rejected, and the height is H0.
C3_SinglePulseRecovered ==
    \A e \in Events(SigLen) :
        (/\ pc = "done" /\ cfg.ssf = 1 /\ nr_pulses = 1
         /\ single_clean_pulse(signal_in, cfg, e)) =>
            /\ Len(pulses_aligned) = 1
            /\ filtered_locs = <<>>
            /\ H = <<Unit(cfg) * e[1][peak_of(e[1]) + 1]>>

\* C3: the single pulse was aligned and appended at its true height, and
\* the outlier rejection then removed it
C3_AlignedThenRejected ==
    /\ pc = "done" /\ cfg.ssf = 1
    /\ last = "appended"
    /\ outliers = <<FALSE>>
    /\ pulses_aligned = <<>>
    /\ \E e \in Events(SigLen) :
          /\ single_clean_pulse(signal_in, cfg, e)
          /\ full_max = Unit(cfg) * e[1][peak_of(e[1]) + 1]

\* the space between candidate k (counted from 1) and the one before it is
\* less than blen; the first candidate has none before it
close_to_previous(d, k, blen) == k > 1 /\ d[k] < blen

\* the space between candidate k and the one after it is less than blen
close_to_next(d, k, blen) == k < Len(d) /\ d[k + 1] < blen

\* C4: the too-close filter drops a candidate if and only if its spacing to
\* the previous or to the next candidate is less than 2 * buffer + pw; the
\* first candidate has no previous neighbour.
C4_DroppedIffTooClose ==
    pc = "loop" =>
        \A k \in 1..Len(diff_locs) :
            ~filter[k] <=> (\/ close_to_previous(diff_locs, k, buffer_len(cfg))
                            \/ close_to_next(diff_locs, k, buffer_len(cfg)))

\* C4: two candidates spaced exactly 2 * buffer + pw apart, the first of
\* them further than that from the start, and both dropped
C4_DroppedAtExactSpacing ==
    /\ pc = "loop"
    /\ Len(diff_locs) = 2
    /\ diff_locs[1] > buffer_len(cfg)
    /\ diff_locs[2] = buffer_len(cfg)
    /\ filter = <<FALSE, FALSE>>

\* ------------------------------------------------------- claims: psd ----
\* C5: for an input of length N >= 1, 1-D or each row of a 2-D batch, psd
\* returns exactly floor(N / 2) + 1 frequency bins.
C5_OneSidedLength ==
    pc = "done" =>
        \A r \in 1..Len(spectrum.psd_array) :
            Len(spectrum.psd_array[r]) = spectrum.len_pulse \div 2 + 1

\* C5: psd has returned three bins for a 1-D input of three samples
C5_ThreeBinsOfThree ==
    /\ pc = "done" /\ spectrum.ndim = 1 /\ spectrum.len_pulse = 3
    /\ Len(spectrum.psd_array[1]) = 3

\* C6: the bins psd doubles are exactly those other than the DC bin and,
\* for even N only, the Nyquist bin N / 2; for odd N every bin from 1 on is
\* doubled, the last one included; every row of a 2-D input alike.
C6_DoubledBins ==
    pc = "done" =>
        \A r \in 1..Len(spectrum.psd_array) :
            \A k \in 1..Len(spectrum.psd_array[r]) :
                LET b == spectrum.psd_array[r][k]
                IN b.weight = (IF \/ b.bin = 0
                                  \/ (spectrum.len_pulse % 2 = 0
                                      /\ 2 * b.bin = spectrum.len_pulse)
                               THEN 1 ELSE 2)

\* C6: psd has returned floor(5 / 2) + 1 = 3 bins for a 1-D input of five
\* samples, and the last bin, which is not a Nyquist bin, is not doubled
C6_LastBinOfFiveSingle ==
    /\ pc = "done" /\ spectrum.ndim = 1 /\ spectrum.len_pulse = 5
    /\ Len(spectrum.psd_array[1]) = 3
    /\ spectrum.psd_array[1][3] = [bin |-> 2, weight |-> 1]

\* ----------------------------------------------- claims: noise_model ----
\* no complete segment of the timestream holds a candidate
quiet(n) ==
    \A k \in 0..(Len(n.signal) \div n.pw - 1) :
        find_peaks(PySlice(n.smoothed_signal, k * n.pw, k * n.pw + n.pw),
                   n.mph * Max(n.sw, 1), n.mpp * Max(n.sw, 1)) = <<>>

\* C7: on a timestream without candidates that holds at least
\* nr_req_segments complete segments of pw samples, noise_model ends having
\* accepted exactly nr_req_segments segments, returns no location and an
\* event rate of 0; the accepted count never exceeds nr_req_segments.  (The
\* runs in which the accumulated spectrum and welch's disagree in length are
\* left aside.)
C7_AcceptsRequiredSegments ==
    /\ pc \in {"scan", "scanned", "done", "raised"} =>
          noise.nr_good_segments <= noise.nr_req_segments
    /\ (/\ pc \in {"done", "raised"}
        /\ quiet(noise)
        /\ welch_length(noise.pw * noise.ssf) = noise.len_onesided
        /\ noise.signal_length >= noise.nr_req_segments * noise.pw) =>
          /\ pc = "done"
          /\ noise.nr_good_segments = noise.nr_req_segments
          /\ noise.all_locs = <<>>
          /\ noise.photon_rate[1] = 0

\* C7: one segment was required of an all-zero timestream of exactly pw
\* samples, and noise_model raised for want of a good segment
C7_RaisedOnExactFit ==
    /\ pc = "raised"
    /\ noise.raised = "No good noise segments found"
    /\ AllZero(noise.signal)
    /\ noise.nr_req_segments = 1
    /\ noise.signal_length = noise.pw

\* --------------------------------------- claims: peak_model, ensemble ----
\* C8: every aligned pulse of the ensemble has exactly pw * ssf samples, all
\* through the loop and at the return, whatever candidates were accepted and
\* discarded; a cut of any other length is discarded, not appended.
C8_PulsesOfFullLength ==
    /\ \A k \in 1..Len(pulses_aligned) : Len(pulses_aligned[k]) = cfg.pw * cfg.ssf
    /\ last = "truncated" => (pc = "done" \/ ~filter_diff[i])

\* C8: peak_model has returned an ensemble of two pulses
C8_TwoPulsesReturned == pc = "done" /\ Len(pulses_aligned) = 2

\* sample j of pulse k of the ensemble P lies within mean - filter_std * std
\* and mean + filter_std * std, the bounds included (n, S, Q, d, V as in
\* inside)
within(P, k, j, filter_std) ==
    LET n == Len(P)
        S == SumSeq([m \in 1..n |-> P[m][j]])
        Q == SumSeq([m \in 1..n |-> P[m][j] * P[m][j]])
        d == n * P[k][j] - S
        V == n * Q - S * S
    IN d * d <= filter_std * filter_std * V

\* C9: the outlier rejection removes a pulse if and only if one of its
\* samples lies outside mean - filter_std * std .. mean + filter_std * std of
\* the ensemble, bounds included (so a lone pulse and identical pulses, where
\* std = 0, are kept), and what survives is what the mask leaves of the
\* ensemble and of the heights, in their order.
C9_RemovedIffOutside ==
    [][(pc = "loop" /\ pc' = "done") =>
          /\ \A k \in 1..Len(pulses_aligned) :
                outliers'[k] <=>
                    \A j \in 1..(cfg.pw * cfg.ssf) :
                        within(pulses_aligned, k, j, cfg.filter_std)
          /\ pulses_aligned' = Mask(pulses_aligned, outliers')
          /\ H' = Mask(H, outliers')]_vars

\* C9: the loop appended one pulse, the only candidate, and the outlier
\* rejection removed it
C9_LonePulseRemoved ==
    /\ pc = "done"
    /\ filter_diff = <<TRUE>>
    /\ outliers = <<FALSE>>
    /\ pulses_aligned = <<>> /\ H = <<>>

\* C10: the height recorded for a pulse is the value of the raw cut at the
\* index of the true peak selected for it, whichever side the peak was
\* found on.
C10_HeightAtSelectedPeak ==
    (pc = "loop" /\ last = "appended") =>
        /\ H[Len(H)] = full_max
        /\ full_max = At(pulse, idx_max)

\* C10: a pulse was appended whose true peak was found left of the nominal
\* location, among two qualifying maxima, and the height recorded for it is
\* that of the other one
C10_HeightOfOtherMaximum ==
    /\ pc = "loop" /\ last = "appended"
    /\ idx_max < smoothed_loc(cfg)
    /\ Len(find_peaks(PySlice(pulse, 0, smoothed_loc(cfg)),
                      min_height(pulse, pks_smoothed[i], cfg), 0)) = 2
    /\ H[Len(H)] # At(pulse, idx_max)

\* ------------------------------------ claims: peak_model, the raw cut ----
\* C11: the drift correction subtracts the offset exactly once from the raw
\* cut, with smoothing and without: after the first pass of the loop (when
\* the timestream is still as it was at the call) each sample of the raw
\* cut is its original value minus the offset.
C11_OffsetSubtractedOnce ==
    (pc = "loop" /\ i = 1 /\ cfg.ssf = 1) =>
        \A j \in 1..Len(pulse) :
            pulse[j] = At(signal_in, left_of(At(locs_smoothed, 0), cfg) + (j - 1))
                       - offset

\* C11: without smoothing, the first pass has left each sample of the raw
\* cut at its original value minus twice an offset that is not zero
C11_OffsetSubtractedTwice ==
    /\ pc = "loop" /\ i = 1 /\ cfg.ssf = 1 /\ cfg.sw = 0
    /\ offset # 0
    /\ pulse # <<>>
    /\ \A j \in 1..Len(pulse) :
          pulse[j] = At(signal_in, left_of(At(locs_smoothed, 0), cfg) + (j - 1))
                     - 2 * offset

\* C12: the rising edge of an accepted pulse with true peak index p and true
\* peak height h (here also the height recorded) is the largest index
\* r <= p of the raw cut whose sample is below h / 2; in particular the
\* sample at the recorded rising edge is below half the peak height.
C12_RisingEdgeBelowHalf ==
    (pc = "loop" /\ last = "appended" /\ full_max = At(pulse, idx_max)) =>
        /\ rising_edge <= idx_max
        /\ 2 * At(pulse, rising_edge) < At(pulse, idx_max)
        /\ \A r \in (rising_edge + 1)..idx_max :
              2 * At(pulse, r) >= At(pulse, idx_max)

\* C12: a pulse was appended at its true height although no sample of the
\* raw cut at or before its peak is below half that height; its rising
\* edge is recorded at the peak itself
C12_AcceptedWithoutRisingEdge ==
    /\ pc = "loop" /\ last = "appended"
    /\ full_max = At(pulse, idx_max)
    /\ \A r \in 0..idx_max : 2 * At(pulse, r) >= full_max
    /\ rising_edge = idx_max
    /\ idx_halfmax[Len(idx_halfmax)] = idx_max

\* C13: after the end filter and the too-close filter, the buffered cut of
\* every surviving candidate lies inside the timestream, 0 <= left and
\* right <= len(signal), so every raw cut of the loop has 2 * buffer + pw
\* samples.
C13_CutInsideTimestream ==
    pc = "loop" =>
        /\ \A k \in 1..Len(locs_smoothed) :
              /\ 0 <= left_of(locs_smoothed[k], cfg)
              /\ right_of(locs_smoothed[k], cfg) <= Len(signal)
        /\ (i > 0 /\ cfg.ssf = 1) => Len(pulse) = buffer_len(cfg)

\* C13: two candidates lay near the end of the timestream; the end filter
\* dropped the last, and the cut of the one before it, which survived both
\* filters, ran past the end and came out short
C13_ShortCutBeforeLast ==
    /\ pc = "loop" /\ i = 1 /\ cfg.ssf = 1
    /\ Len(det_locs) = 2 /\ Len(locs_smoothed) = 1
    /\ locs_smoothed[1] = det_locs[1]
    /\ right_of(locs_smoothed[1], cfg) > Len(signal)
    /\ Len(pulse) < buffer_len(cfg)

====
